---------------------------- MODULE Spec2Model ----------------------------
(***************************************************************************)
(* A model of app.py, the UN-EX Fusion Simulator page.                     *)
(*                                                                         *)
(* Numbers.  Python floats are modelled as exact rationals, a record       *)
(* [tag |-> "float", n |-> numerator, d |-> denominator] in lowest terms   *)
(* with d > 0.  A raised exception that leaves a computation is a record   *)
(* with the tag "ZeroDivisionError", and a name that is not bound yet is   *)
(* None.  IEEE rounding, infinities and NaN are not       *)
(* modelled; the one irrational operation, T**0.5, is truncated to a       *)
(* multiple of 1/SqrtScale.                                                *)
(***************************************************************************)
EXTENDS Integers, Sequences, FiniteSets, TLC

VARIABLES
    pc,                  \* position of the script run (app.py top to bottom)
    secrets,             \* keys present in st.secrets (with "stripe" the section)
    login,               \* what paywall.login(...) did in this run
    out,                 \* the elements the run has rendered, in order
    sliders,             \* the eight slider values of the run
    D_UNEX, tau_E_unex,
    D_Bohm, tau_E_bohm,
    D_Neoclassical, tau_E_neoclassical,
    fpc,                 \* position of a direct call of calculate_unex_diffusion
    fargs,               \* its arguments
    fret                 \* what it returned or raised

vars == <<pc, secrets, login, out, sliders, D_UNEX, tau_E_unex, D_Bohm, tau_E_bohm,
          D_Neoclassical, tau_E_neoclassical, fpc, fargs, fret>>

appVars == <<pc, secrets, login, out, sliders, D_UNEX, tau_E_unex, D_Bohm, tau_E_bohm,
             D_Neoclassical, tau_E_neoclassical>>

fnVars == <<fpc, fargs, fret>>

---------------------------------------------------------------------------
(* Bounds of the model *)

\* Grid steps above a slider's minimum that the T and B sliders are sampled at
\* (besides the slider's default and its maximum).
MaxStep == 1

\* T**0.5 is truncated to a multiple of 1/SqrtScale.
SqrtScale == 100

---------------------------------------------------------------------------
(* Float arithmetic, exact *)

Abs(i) == IF i < 0 THEN -i ELSE i

RECURSIVE GCD(_, _)
GCD(x, y) == IF y = 0 THEN x ELSE GCD(y, x % y)

\* The float n/d (d # 0) in lowest terms.
Rat(n, d) ==
    LET s == IF d < 0 THEN -1 ELSE 1
        g == GCD(Abs(n), Abs(d))
    IN  [tag |-> "float", n |-> (s * n) \div g, d |-> (s * d) \div g]

None == [tag |-> "None", n |-> 0, d |-> 1]

ZeroDivisionError == [tag |-> "ZeroDivisionError", n |-> 0, d |-> 1]

IsFloat(x) == x.tag = "float"

FAdd(x, y) == Rat(x.n * y.d + y.n * x.d, x.d * y.d)

FSub(x, y) == Rat(x.n * y.d - y.n * x.d, x.d * y.d)

FMul(x, y) == Rat(x.n * y.n, x.d * y.d)

\* x / y: Python raises ZeroDivisionError for a float divisor of zero.
FDiv(x, y) == IF y.n = 0 THEN ZeroDivisionError ELSE Rat(x.n * y.d, x.d * y.n)

FLt(x, y) == x.n * y.d < y.n * x.d

FGt(x, y) == FLt(y, x)

FLe(x, y) == ~FLt(y, x)

\* Python's max(x, y): the first argument unless the second is greater.
PyMax(x, y) == IF FGt(y, x) THEN y ELSE x

---------------------------------------------------------------------------
(* calculate_unex_diffusion *)

\* Faulty variants of the definitions that follow: another floor, no clamp
\* of S_local, the harmonic term added instead of subtracted.
min_diffusion_floor_1e3 == Rat(1, 1000)

min_diffusion_floor == Rat(1, 10000)

S_local_adjusted_unclamped(S_local) == S_local

S_local_adjusted(S_local) == PyMax(Rat(0, 1), S_local)

diffusion_coefficient_plus_beta(T, B, E_harmonic, S_adj, alpha_coeff, beta_coeff, gamma_coeff) ==
    FAdd(FAdd(FMul(alpha_coeff, FDiv(T, B)), FMul(beta_coeff, E_harmonic)),
         FMul(gamma_coeff, S_adj))

\* Line 48, for B # 0.
diffusion_coefficient(T, B, E_harmonic, S_adj, alpha_coeff, beta_coeff, gamma_coeff) ==
    FAdd(FSub(FMul(alpha_coeff, FDiv(T, B)), FMul(beta_coeff, E_harmonic)),
         FMul(gamma_coeff, S_adj))

\* Faulty variants of calculate_unex_diffusion: no floor; the division guarded
\* by the floor; delta added to the entropy term.
calculate_unex_diffusion_nofloor(T, B, E_harmonic, S_local, alpha_coeff, beta_coeff, gamma_coeff, delta) ==
    IF B.n = 0 THEN ZeroDivisionError
    ELSE diffusion_coefficient(T, B, E_harmonic, S_local_adjusted(S_local),
                               alpha_coeff, beta_coeff, gamma_coeff)

calculate_unex_diffusion_guarded(T, B, E_harmonic, S_local, alpha_coeff, beta_coeff, gamma_coeff, delta) ==
    IF B.n = 0 THEN min_diffusion_floor
    ELSE PyMax(diffusion_coefficient(T, B, E_harmonic, S_local_adjusted(S_local),
                                     alpha_coeff, beta_coeff, gamma_coeff),
               min_diffusion_floor)

calculate_unex_diffusion_delta(T, B, E_harmonic, S_local, alpha_coeff, beta_coeff, gamma_coeff, delta) ==
    IF B.n = 0 THEN ZeroDivisionError
    ELSE PyMax(diffusion_coefficient(T, B, E_harmonic,
                                     FAdd(S_local_adjusted(S_local), delta),
                                     alpha_coeff, beta_coeff, gamma_coeff),
               min_diffusion_floor)

\* T / B raises before anything is returned when B = 0; nothing in the function
\* catches it.  delta is a parameter no expression reads.
calculate_unex_diffusion(T, B, E_harmonic, S_local, alpha_coeff, beta_coeff, gamma_coeff, delta) ==
    IF FDiv(T, B) = ZeroDivisionError THEN ZeroDivisionError
    ELSE PyMax(diffusion_coefficient(T, B, E_harmonic, S_local_adjusted(S_local),
                                     alpha_coeff, beta_coeff, gamma_coeff),
               min_diffusion_floor)

---------------------------------------------------------------------------
(* Direct calls of calculate_unex_diffusion, on arguments the sliders need *)
(* not admit (B = 0, negative values).                                     *)

ArgT == {Rat(-10, 1), Rat(1, 1), Rat(10, 1)}
ArgB == {Rat(-5, 1), Rat(0, 1), Rat(5, 1), Rat(20, 1)}
ArgE == {Rat(-1, 1), Rat(0, 1), Rat(1, 1), Rat(10, 1)}
ArgS == {Rat(-1, 1), Rat(-1, 2), Rat(0, 1), Rat(1, 2)}
ArgAlpha == {Rat(1, 10), Rat(1, 1), Rat(2, 1)}
ArgBeta == {Rat(0, 1), Rat(1, 1), Rat(2, 1)}
ArgGamma == {Rat(0, 1), Rat(1, 1), Rat(2, 1)}
ArgDelta == {Rat(1, 1000), Rat(1, 100)}

Args == [T : ArgT, B : ArgB, E_harmonic : ArgE, S_local : ArgS,
         alpha_coeff : ArgAlpha, beta_coeff : ArgBeta, gamma_coeff : ArgGamma,
         delta : ArgDelta]

NoArgs == [T |-> None, B |-> None, E_harmonic |-> None, S_local |-> None,
           alpha_coeff |-> None, beta_coeff |-> None, gamma_coeff |-> None,
           delta |-> None]

Apply(x) == calculate_unex_diffusion(x.T, x.B, x.E_harmonic, x.S_local,
                                     x.alpha_coeff, x.beta_coeff, x.gamma_coeff, x.delta)

Call ==
    /\ fpc = "ready"
    /\ \E x \in Args :
          /\ fargs' = x
          /\ fret' = Apply(x)
          /\ fpc' = IF IsFloat(Apply(x)) THEN "returned" ELSE "raised"
    /\ UNCHANGED appVars

Again ==
    /\ fpc \in {"returned", "raised"}
    /\ fpc' = "ready"
    /\ fargs' = NoArgs
    /\ fret' = None
    /\ UNCHANGED appVars

---------------------------------------------------------------------------
(* The sliders of main *)

\* st.slider(min_value, max_value, value, step): the widget returns
\* min_value + k * step for some k >= 0, never more than max_value.
T_slider == [min |-> Rat(1, 1), max |-> Rat(50, 1), value |-> Rat(10, 1), step |-> Rat(1, 2)]

\* B_slider_from_zero is a faulty variant of B_slider that admits B = 0.
B_slider_from_zero == [min |-> Rat(0, 1), max |-> Rat(20, 1), value |-> Rat(5, 1), step |-> Rat(1, 10)]

B_slider == [min |-> Rat(1, 2), max |-> Rat(20, 1), value |-> Rat(5, 1), step |-> Rat(1, 10)]

E_harmonic_slider == [min |-> Rat(0, 1), max |-> Rat(10, 1), value |-> Rat(1, 1), step |-> Rat(1, 10)]

S_local_slider == [min |-> Rat(0, 1), max |-> Rat(1, 1), value |-> Rat(1, 2), step |-> Rat(1, 100)]

alpha_coeff_slider == [min |-> Rat(1, 10), max |-> Rat(10, 1), value |-> Rat(1, 1), step |-> Rat(1, 10)]

beta_coeff_slider == [min |-> Rat(0, 1), max |-> Rat(5, 1), value |-> Rat(1, 1), step |-> Rat(1, 10)]

gamma_coeff_slider == [min |-> Rat(0, 1), max |-> Rat(5, 1), value |-> Rat(1, 1), step |-> Rat(1, 10)]

delta_slider == [min |-> Rat(1, 1000), max |-> Rat(1, 10), value |-> Rat(1, 100), step |-> Rat(1, 1000)]

\* The k-th position of a slider.
Position(s, k) == FAdd(s.min, FMul(Rat(k, 1), s.step))

\* The positions the model samples: both ends and the default, and for the
\* two sliders whose values are divisors (T, B) the first MaxStep steps too.
Ends(s) == {s.min, s.value, s.max}

Sampled(s) == Ends(s) \cup {v \in {Position(s, k) : k \in 0..MaxStep} : FLe(v, s.max)}

SliderValues == [T : Sampled(T_slider), B : Sampled(B_slider),
                 E_harmonic : Ends(E_harmonic_slider), S_local : Ends(S_local_slider),
                 alpha_coeff : Ends(alpha_coeff_slider), beta_coeff : Ends(beta_coeff_slider),
                 gamma_coeff : Ends(gamma_coeff_slider), delta : Ends(delta_slider)]

---------------------------------------------------------------------------
(* The arithmetic of main *)

a == Rat(1, 1)

scaling_factor_bohm == Rat(1, 1)

scaling_factor_neoclassical == Rat(1, 10)

Complex == [tag |-> "complex", n |-> 0, d |-> 1]

\* The greatest r in lo..hi with r * r <= m.
RECURSIVE SqrtSearch(_, _, _)
SqrtSearch(m, lo, hi) ==
    IF lo >= hi THEN lo
    ELSE LET mid == (lo + hi + 1) \div 2
         IN  IF mid * mid <= m THEN SqrtSearch(m, mid, hi) ELSE SqrtSearch(m, lo, mid - 1)

\* x ** 0.5, truncated to a multiple of 1/SqrtScale; a negative float base
\* gives a complex number in Python.
Pow05(x) ==
    IF ~IsFloat(x) THEN x
    ELSE IF x.n < 0 THEN Complex
    ELSE Rat(SqrtSearch(x.n * x.d * SqrtScale * SqrtScale, 0, SqrtScale * (x.n + 1) * x.d),
             x.d * SqrtScale)

\* x ** 2
Pow2(x) == FMul(x, x)

\* An operand that is an exception already raised, or a complex number,
\* goes through; otherwise the division.
Quot(x, y) ==
    IF ~IsFloat(x) THEN x
    ELSE IF ~IsFloat(y) THEN y
    ELSE FDiv(x, y)

Prod(x, y) ==
    IF ~IsFloat(x) THEN x
    ELSE IF ~IsFloat(y) THEN y
    ELSE FMul(x, y)

\* (a**2) / D, and a faulty variant with the operands exchanged.
ConfinementTime_inverted(D) == Quot(D, Pow2(a))

ConfinementTime(D) == Quot(Pow2(a), D)

BohmDiffusion(T, B) == Prod(scaling_factor_bohm, Quot(T, B))

NeoclassicalDiffusion(T, B) == Prod(scaling_factor_neoclassical, Quot(Pow05(T), Pow2(B)))

Raised(x) == x.tag = "ZeroDivisionError"

---------------------------------------------------------------------------
(* What main renders *)

El(kind, msg) == [kind |-> kind, msg |-> msg, arg |-> ""]

ElArg(kind, msg, arg) == [kind |-> kind, msg |-> msg, arg |-> arg]

ImportErrorMessage == El("error", "st-paywall not found")

AccessDenied == El("warning", "Access denied")

ConfigurationError(key) == ElArg("error", "Configuration Error: Missing Stripe secret", key)

UnexpectedError == El("error", "unexpected error during paywall initialization")

BohmBetter == El("success", "UN-EX is significantly better than Bohm")

BohmWorse == El("info", "UN-EX is comparable to or worse than Bohm")

NeoclassicalBetter == El("success", "UN-EX is better than Neoclassical")

NeoclassicalWorse == El("info", "UN-EX is comparable to or worse than Neoclassical")

\* The comparisons of lines 171-179; BohmMessage_ge is a faulty variant that
\* takes equal times for better.
BohmMessage_ge(tau_unex, tau_bohm) == IF FLe(tau_bohm, tau_unex) THEN BohmBetter ELSE BohmWorse

BohmMessage(tau_unex, tau_bohm) == IF FGt(tau_unex, tau_bohm) THEN BohmBetter ELSE BohmWorse

NeoclassicalMessage(tau_unex, tau_neo) ==
    IF FGt(tau_unex, tau_neo) THEN NeoclassicalBetter ELSE NeoclassicalWorse

---------------------------------------------------------------------------
(* The paywall gate *)

SecretKeys == <<"stripe", "publishable_key", "api_key", "product_id">>

\* The lookups st.secrets["stripe"][k] run in the order of the call's
\* arguments; the first one missing raises KeyError(k).  0: none is missing.
RECURSIVE FirstMissing(_, _)
FirstMissing(present, i) ==
    IF i > Len(SecretKeys) THEN 0
    ELSE IF SecretKeys[i] \notin present THEN i
    ELSE FirstMissing(present, i + 1)

LoginOutcomes == {"truthy", "falsy", "KeyError", "Exception", "BaseException"}

\* Where the run goes after the try statement of lines 77-95, and what the
\* statement rendered.  st.stop() ends the run by raising Streamlit's
\* StopException, a BaseException that is no Exception, so the handlers of
\* lines 86-95 do not catch the st.stop() of line 85; any other BaseException
\* raised by login passes both handlers too and ends the run.
\* AfterLogin_nostop is a faulty variant without the st.stop() of line 85.
AfterLogin_nostop(result) ==
    CASE result = "truthy" -> [pc |-> "simulator", out |-> <<>>]
      [] result = "falsy" -> [pc |-> "simulator", out |-> <<AccessDenied>>]
      [] result = "KeyError" -> [pc |-> "stopped", out |-> <<ConfigurationError("raised by login")>>]
      [] result = "Exception" -> [pc |-> "stopped", out |-> <<UnexpectedError>>]
      [] OTHER -> [pc |-> "aborted", out |-> <<>>]

AfterLogin(result) ==
    CASE result = "truthy" -> [pc |-> "simulator", out |-> <<>>]
      [] result = "falsy" -> [pc |-> "stopped", out |-> <<AccessDenied>>]
      [] result = "KeyError" -> [pc |-> "stopped", out |-> <<ConfigurationError("raised by login")>>]
      [] result = "Exception" -> [pc |-> "stopped", out |-> <<UnexpectedError>>]
      [] OTHER -> [pc |-> "aborted", out |-> <<>>]

---------------------------------------------------------------------------
(* A run of the script *)

NoSliders == NoArgs

Unbound ==
    /\ sliders = NoSliders
    /\ D_UNEX = None /\ tau_E_unex = None
    /\ D_Bohm = None /\ tau_E_bohm = None
    /\ D_Neoclassical = None /\ tau_E_neoclassical = None

FnIdle == fpc = "off" /\ fargs = NoArgs /\ fret = None

\* The environment of the page: whether st_paywall is installed and which
\* secrets secrets.toml holds.
Init ==
    /\ pc = "import"
    /\ secrets \in [installed : BOOLEAN, keys : SUBSET {SecretKeys[i] : i \in 1..Len(SecretKeys)}]
    /\ login = "none"
    /\ out = <<>>
    /\ Unbound
    /\ FnIdle

\* Lines 8-16.
ImportPaywall ==
    /\ pc = "import"
    /\ IF secrets.installed
         THEN pc' = "main" /\ out' = out
         ELSE pc' = "stopped" /\ out' = Append(out, ImportErrorMessage)
    /\ UNCHANGED <<secrets, login, sliders, D_UNEX, tau_E_unex, D_Bohm, tau_E_bohm,
                   D_Neoclassical, tau_E_neoclassical>>
    /\ UNCHANGED fnVars

\* Lines 77-95.
Login ==
    /\ pc = "main"
    /\ LET k == FirstMissing(secrets.keys, 1)
       IN  IF k # 0
             THEN /\ login' = "not called"
                  /\ pc' = "stopped"
                  /\ out' = Append(out, ConfigurationError(SecretKeys[k]))
             ELSE \E result \in LoginOutcomes :
                     /\ login' = result
                     /\ pc' = AfterLogin(result).pc
                     /\ out' = out \o AfterLogin(result).out
    /\ UNCHANGED <<secrets, sliders, D_UNEX, tau_E_unex, D_Bohm, tau_E_bohm,
                   D_Neoclassical, tau_E_neoclassical>>
    /\ UNCHANGED fnVars

\* Lines 98-105.
Welcome ==
    /\ pc = "simulator"
    /\ out' = out \o <<El("title", "UN-EX Fusion Simulator - Full Access"),
                       El("write", "Welcome"),
                       El("header", "1. Tunable Plasma Parameters")>>
    /\ pc' = "sliders"
    /\ UNCHANGED <<secrets, login, sliders, D_UNEX, tau_E_unex, D_Bohm, tau_E_bohm,
                   D_Neoclassical, tau_E_neoclassical>>
    /\ UNCHANGED fnVars

\* Lines 108-127.
Sliders ==
    /\ pc = "sliders"
    /\ sliders' \in SliderValues
    /\ out' = Append(out, El("slider", "T, B, E_harmonic, S_local, alpha, beta, gamma, delta"))
    /\ pc' = "calculate"
    /\ UNCHANGED <<secrets, login, D_UNEX, tau_E_unex, D_Bohm, tau_E_bohm,
                   D_Neoclassical, tau_E_neoclassical>>
    /\ UNCHANGED fnVars

\* Lines 129-145.  An exception nothing catches ends the run where it is raised.
Calculate ==
    /\ pc = "calculate"
    /\ LET D == calculate_unex_diffusion(sliders.T, sliders.B, sliders.E_harmonic,
                                         sliders.S_local, sliders.alpha_coeff,
                                         sliders.beta_coeff, sliders.gamma_coeff,
                                         sliders.delta)
           tau == ConfinementTime(D)
           h == Append(out, El("header", "2. UN-EX Model Calculations"))
       IN  IF Raised(D)
             THEN /\ D_UNEX' = D_UNEX /\ tau_E_unex' = tau_E_unex
                  /\ out' = h /\ pc' = "crashed"
           ELSE IF Raised(tau)
             THEN /\ D_UNEX' = D /\ tau_E_unex' = tau_E_unex
                  /\ out' = Append(h, El("write", "D_UNEX")) /\ pc' = "crashed"
           ELSE /\ D_UNEX' = D /\ tau_E_unex' = tau
                /\ out' = h \o <<El("write", "D_UNEX"), El("write", "tau_E_unex"),
                                 El("info", "Q-ratio note")>>
                /\ pc' = "bohm"
    /\ UNCHANGED <<secrets, login, sliders, D_Bohm, tau_E_bohm,
                   D_Neoclassical, tau_E_neoclassical>>
    /\ UNCHANGED fnVars

\* Lines 148-158.
Bohm ==
    /\ pc = "bohm"
    /\ LET D == BohmDiffusion(sliders.T, sliders.B)
           tau == ConfinementTime(D)
           h == out \o <<El("header", "3. Confinement Comparison"), El("write", "Comparing")>>
       IN  IF Raised(D)
             THEN /\ D_Bohm' = D_Bohm /\ tau_E_bohm' = tau_E_bohm
                  /\ out' = h /\ pc' = "crashed"
           ELSE IF Raised(tau)
             THEN /\ D_Bohm' = D /\ tau_E_bohm' = tau_E_bohm
                  /\ out' = h /\ pc' = "crashed"
           ELSE /\ D_Bohm' = D /\ tau_E_bohm' = tau
                /\ out' = Append(h, El("write", "tau_E_bohm"))
                /\ pc' = "neoclassical"
    /\ UNCHANGED <<secrets, login, sliders, D_UNEX, tau_E_unex,
                   D_Neoclassical, tau_E_neoclassical>>
    /\ UNCHANGED fnVars

\* Lines 160-167.
Neoclassical ==
    /\ pc = "neoclassical"
    /\ LET D == NeoclassicalDiffusion(sliders.T, sliders.B)
           tau == ConfinementTime(D)
       IN  IF Raised(D)
             THEN /\ D_Neoclassical' = D_Neoclassical
                  /\ tau_E_neoclassical' = tau_E_neoclassical
                  /\ out' = out /\ pc' = "crashed"
           ELSE IF Raised(tau)
             THEN /\ D_Neoclassical' = D /\ tau_E_neoclassical' = tau_E_neoclassical
                  /\ out' = out /\ pc' = "crashed"
           ELSE /\ D_Neoclassical' = D /\ tau_E_neoclassical' = tau
                /\ out' = Append(out, El("write", "tau_E_neoclassical"))
                /\ pc' = "compare"
    /\ UNCHANGED <<secrets, login, sliders, D_UNEX, tau_E_unex, D_Bohm, tau_E_bohm>>
    /\ UNCHANGED fnVars

\* Lines 169-179.  Ordering a float against a complex number raises TypeError.
Compare ==
    /\ pc = "compare"
    /\ LET h == Append(out, El("subheader", "Confinement Time Performance"))
           first == Append(h, BohmMessage(tau_E_unex, tau_E_bohm))
       IN  IF ~IsFloat(tau_E_neoclassical)
             THEN out' = first /\ pc' = "crashed"
             ELSE /\ out' = Append(first, NeoclassicalMessage(tau_E_unex, tau_E_neoclassical))
                  /\ pc' = "plot"
    /\ UNCHANGED <<secrets, login, sliders, D_UNEX, tau_E_unex, D_Bohm, tau_E_bohm,
                   D_Neoclassical, tau_E_neoclassical>>
    /\ UNCHANGED fnVars

\* Lines 182-191.
Plot ==
    /\ pc = "plot"
    /\ out' = out \o <<El("header", "4. Real-Time Confinement Plot"),
                       El("line_chart", "tau_E_unex"),
                       El("markdown", "plot note")>>
    /\ pc' = "done"
    /\ UNCHANGED <<secrets, login, sliders, D_UNEX, tau_E_unex, D_Bohm, tau_E_bohm,
                   D_Neoclassical, tau_E_neoclassical>>
    /\ UNCHANGED fnVars

\* Streamlit runs the script again, from its first line, on the next
\* interaction with the page.
Rerun ==
    /\ pc \in {"done", "stopped", "crashed", "aborted"}
    /\ pc' = "import"
    /\ login' = "none"
    /\ out' = <<>>
    /\ sliders' = NoSliders
    /\ D_UNEX' = None /\ tau_E_unex' = None
    /\ D_Bohm' = None /\ tau_E_bohm' = None
    /\ D_Neoclassical' = None /\ tau_E_neoclassical' = None
    /\ UNCHANGED secrets
    /\ UNCHANGED fnVars

Next ==
    \/ ImportPaywall
    \/ Login
    \/ Welcome
    \/ Sliders
    \/ Calculate
    \/ Bohm
    \/ Neoclassical
    \/ Compare
    \/ Plot
    \/ Rerun

Spec == Init /\ [][Next]_vars

---------------------------------------------------------------------------
(* Direct calls: the specification *)

AppIdle ==
    /\ pc = "off"
    /\ secrets = [installed |-> FALSE, keys |-> {}]
    /\ login = "none"
    /\ out = <<>>
    /\ Unbound

InitFn == AppIdle /\ fpc = "ready" /\ fargs = NoArgs /\ fret = None

NextFn == Call \/ Again

SpecFn == InitFn /\ [][NextFn]_vars

---------------------------------------------------------------------------
(* Both: a run of the page, or direct calls *)

InitAll == Init \/ InitFn

NextAll == Next \/ NextFn

SpecAll == InitAll /\ [][NextAll]_vars

---------------------------------------------------------------------------
(* Properties *)

Called == fpc \in {"returned", "raised"}

Has(e) == \E i \in 1..Len(out) : out[i] = e

\* C1: whenever calculate_unex_diffusion is called with B # 0 it returns a
\* float that is at least the floor 1e-4, hence strictly positive.
C1_FloorInvariant ==
    (Called /\ fargs.B.n # 0) =>
        /\ fpc = "returned"
        /\ IsFloat(fret)
        /\ FLe(Rat(1, 10000), fret)
        /\ FGt(fret, Rat(0, 1))

\* A call whose raw value is negative and that returned the floor.
C1_Witness ==
    /\ fpc = "returned"
    /\ fret = Rat(1, 10000)
    /\ FLt(diffusion_coefficient(fargs.T, fargs.B, fargs.E_harmonic,
                                 S_local_adjusted(fargs.S_local), fargs.alpha_coeff,
                                 fargs.beta_coeff, fargs.gamma_coeff), Rat(0, 1))

\* C2: for B # 0 the call returns max(alpha*(T/B) - beta*E_harmonic +
\* gamma*max(0, S_local), 1e-4): the raw value when it exceeds the floor, the
\* floor otherwise; 1.5 and 1e-4 on the two scenarios of the specification.
C2_ExactValue ==
    (Called /\ fargs.B.n # 0) =>
        LET x == fargs
            S == IF x.S_local.n < 0 THEN Rat(0, 1) ELSE x.S_local
            raw == FAdd(FSub(FMul(x.alpha_coeff, Rat(x.T.n * x.B.d, x.T.d * x.B.n)),
                             FMul(x.beta_coeff, x.E_harmonic)),
                        FMul(x.gamma_coeff, S))
            one == Rat(1, 1)
        IN  /\ fpc = "returned"
            /\ fret = IF FGt(raw, Rat(1, 10000)) THEN raw ELSE Rat(1, 10000)
            /\ (/\ x.T = Rat(10, 1) /\ x.B = Rat(5, 1) /\ x.E_harmonic = one
                /\ x.S_local = Rat(1, 2)
                /\ x.alpha_coeff = one /\ x.beta_coeff = one /\ x.gamma_coeff = one)
                   => fret = Rat(3, 2)
            /\ (/\ x.T = one /\ x.B = Rat(20, 1) /\ x.E_harmonic = Rat(10, 1)
                /\ x.S_local = Rat(0, 1)
                /\ x.alpha_coeff = one /\ x.beta_coeff = one /\ x.gamma_coeff = one)
                   => fret = Rat(1, 10000)

\* The first scenario has been called and returned 1.5.
C2_Witness ==
    /\ fpc = "returned"
    /\ fargs.T = Rat(10, 1) /\ fargs.B = Rat(5, 1) /\ fargs.E_harmonic = Rat(1, 1)
    /\ fargs.S_local = Rat(1, 2)
    /\ fargs.alpha_coeff = Rat(1, 1) /\ fargs.beta_coeff = Rat(1, 1)
    /\ fargs.gamma_coeff = Rat(1, 1)
    /\ fret = Rat(3, 2)

SimulatorStages == {"simulator", "sliders", "calculate", "bohm", "neoclassical",
                    "compare", "plot", "done", "crashed"}

SimulatorReached ==
    \/ pc \in SimulatorStages
    \/ sliders # NoSliders
    \/ D_UNEX # None \/ tau_E_unex # None
    \/ D_Bohm # None \/ tau_E_bohm # None
    \/ D_Neoclassical # None \/ tau_E_neoclassical # None
    \/ \E i \in 1..Len(out) : out[i].kind \notin {"warning", "error"}

\* C3: the simulator stage is reached only after paywall.login returned a truthy
\* value; after a falsy value, a missing secret (KeyError) or any other
\* exception the run has rendered the one corresponding warning or error and
\* has stopped, with no simulator output and D_UNEX never computed.
C3_PaywallGate ==
    /\ SimulatorReached => login = "truthy"
    /\ login = "falsy" => (pc = "stopped" /\ out = <<AccessDenied>>)
    /\ login \in {"not called", "KeyError"} =>
          /\ pc = "stopped"
          /\ Len(out) = 1
          /\ out[1].kind = "error"
          /\ out[1].msg = "Configuration Error: Missing Stripe secret"
    /\ login = "Exception" => (pc = "stopped" /\ out = <<UnexpectedError>>)

\* login returned a falsy value and the run has stopped on the warning.
C3_Witness ==
    /\ login = "falsy"
    /\ pc = "stopped"
    /\ out = <<AccessDenied>>
    /\ D_UNEX = None

\* C4: a call with B = 0 raises ZeroDivisionError; it returns no float, the
\* floor included.
C4_DivisionFaultPropagates ==
    (Called /\ fargs.B.n = 0) =>
        /\ fpc = "raised"
        /\ fret = ZeroDivisionError
        /\ ~IsFloat(fret)

\* A call with B = 0 whose other terms would have been floored has raised.
C4_Witness ==
    /\ fpc = "raised"
    /\ fargs.B = Rat(0, 1)
    /\ fargs.E_harmonic = Rat(10, 1)
    /\ fargs.beta_coeff = Rat(2, 1)

\* C5: a call with S_local < 0 (B # 0) returns what the call with S_local = 0
\* and the same other arguments returns.
C5_NegativeEntropyAsZero ==
    (Called /\ fargs.B.n # 0 /\ fargs.S_local.n < 0) =>
        fret = Apply([fargs EXCEPT !.S_local = Rat(0, 1)])

\* A call with S_local < 0 and gamma > 0 that returned a value above the floor.
C5_Witness ==
    /\ fpc = "returned"
    /\ fargs.S_local.n < 0
    /\ fargs.gamma_coeff.n > 0
    /\ FGt(fret, Rat(1, 10000))

Floor == Rat(1, 10000)

\* The result never decreases from r1 to r2 and strictly increases when r2 is
\* above the floor.
IncreasesUpToFloor(r1, r2) == FLe(r1, r2) /\ (FGt(r2, Floor) => FLt(r1, r2))

\* The result strictly decreases from r1 to r2 or stays at the floor.
DecreasesOrFloor(r1, r2) == FLt(r2, r1) \/ (r2 = r1 /\ r1 = Floor)

AlphaGammaMonotone ==
    /\ \A g \in ArgGamma :
          (FGt(g, fargs.gamma_coeff) /\ fargs.S_local.n > 0) =>
              IncreasesUpToFloor(fret, Apply([fargs EXCEPT !.gamma_coeff = g]))
    /\ \A al \in ArgAlpha :
          (FGt(al, fargs.alpha_coeff) /\ FGt(FDiv(fargs.T, fargs.B), Rat(0, 1))) =>
              IncreasesUpToFloor(fret, Apply([fargs EXCEPT !.alpha_coeff = al]))

\* The inputs the data model calls valid: T > 0, B > 0, E_harmonic >= 0.
ValidInputs == fargs.T.n > 0 /\ fargs.B.n > 0 /\ fargs.E_harmonic.n >= 0

\* C6 as claimed, on valid inputs: increasing beta strictly decreases the
\* result or leaves it unchanged at the floor, whatever E_harmonic is;
\* increasing gamma (S_local > 0) or alpha (T/B > 0) increases it up to floor
\* saturation.
C6_Original ==
    (fpc = "returned" /\ ValidInputs) =>
        /\ \A b \in ArgBeta :
              FGt(b, fargs.beta_coeff) =>
                  DecreasesOrFloor(fret, Apply([fargs EXCEPT !.beta_coeff = b]))
        /\ AlphaGammaMonotone

\* C6 (amended): increasing beta with E_harmonic > 0 strictly decreases the
\* result or leaves it unchanged at the floor; increasing gamma (S_local > 0) or
\* alpha (T/B > 0) never decreases it and strictly increases it whenever the
\* larger result is above the floor.
C6_Monotone ==
    (fpc = "returned") =>
        /\ \A b \in ArgBeta :
              (FGt(b, fargs.beta_coeff) /\ fargs.E_harmonic.n > 0) =>
                  DecreasesOrFloor(fret, Apply([fargs EXCEPT !.beta_coeff = b]))
        /\ AlphaGammaMonotone

\* A returned value above the floor that a larger beta (E_harmonic > 0) makes
\* strictly smaller and a larger alpha (T/B > 0) strictly greater.
C6_Witness ==
    /\ fpc = "returned"
    /\ fargs.E_harmonic.n > 0
    /\ FGt(fret, Floor)
    /\ \E b \in ArgBeta :
          /\ FGt(b, fargs.beta_coeff)
          /\ FLt(Apply([fargs EXCEPT !.beta_coeff = b]), fret)
    /\ \E al \in ArgAlpha :
          /\ FGt(al, fargs.alpha_coeff)
          /\ FGt(Apply([fargs EXCEPT !.alpha_coeff = al]), fret)

\* C7: the UN-EX confinement time is a*a / D_UNEX with a = 1, and
\* 0 < tau_E_unex <= 10000 for every slider input.
C7_ConfinementTime ==
    (tau_E_unex # None) =>
        /\ IsFloat(D_UNEX) /\ IsFloat(tau_E_unex)
        /\ tau_E_unex = Rat(1 * 1 * D_UNEX.d, D_UNEX.n)
        /\ FGt(tau_E_unex, Rat(0, 1))
        /\ FLe(tau_E_unex, Rat(10000, 1))

\* A finished run whose D_UNEX is the floor: the confinement time is 10000.
C7_Witness ==
    /\ pc = "done"
    /\ D_UNEX = Rat(1, 10000)
    /\ tau_E_unex = Rat(10000, 1)

\* What a finished run with delta = d has computed and rendered after the
\* sliders.
Computed(d) ==
    LET D == calculate_unex_diffusion(sliders.T, sliders.B, sliders.E_harmonic,
                                      sliders.S_local, sliders.alpha_coeff,
                                      sliders.beta_coeff, sliders.gamma_coeff, d)
    IN  [D |-> D, tau |-> ConfinementTime(D),
         bohm |-> BohmMessage(ConfinementTime(D), tau_E_bohm),
         neo |-> NeoclassicalMessage(ConfinementTime(D), tau_E_neoclassical)]

\* C8: delta has no effect: a direct call returns (or raises) the same for
\* every delta, and a finished run's D_UNEX, confinement time and comparison
\* messages are those of every other position of the delta slider.
C8_DeltaUnused ==
    /\ Called => \A d \in ArgDelta : Apply([fargs EXCEPT !.delta = d]) = fret
    /\ (pc = "done") =>
          \A d \in Ends(delta_slider) :
              /\ Computed(d).D = D_UNEX
              /\ Computed(d).tau = tau_E_unex
              /\ Has(Computed(d).bohm)
              /\ Has(Computed(d).neo)

\* A finished run with the delta slider at its maximum and D_UNEX above the
\* floor.
C8_Witness ==
    /\ pc = "done"
    /\ sliders.delta = delta_slider.max
    /\ FGt(D_UNEX, Rat(1, 10000))

Count(e) == Cardinality({i \in 1..Len(out) : out[i] = e})

\* C9: once the comparisons have run, exactly one of the two Bohm messages and
\* exactly one of the two Neoclassical messages is rendered: the success
\* message iff tau_E_unex is strictly greater than the reference time, the info
\* message otherwise (equality included), each decided by its own reference
\* time; before that none is rendered.
C9_ComparisonMessages ==
    /\ pc \in {"plot", "done"} =>
          /\ Count(BohmBetter) + Count(BohmWorse) = 1
          /\ Count(NeoclassicalBetter) + Count(NeoclassicalWorse) = 1
          /\ Has(BohmBetter) <=>
                tau_E_unex.n * tau_E_bohm.d > tau_E_bohm.n * tau_E_unex.d
          /\ Has(NeoclassicalBetter) <=>
                tau_E_unex.n * tau_E_neoclassical.d > tau_E_neoclassical.n * tau_E_unex.d
    /\ pc \notin {"plot", "done"} =>
          Count(BohmBetter) + Count(BohmWorse)
              + Count(NeoclassicalBetter) + Count(NeoclassicalWorse) = 0

\* A finished run where the UN-EX and Bohm confinement times are equal: the
\* info message was rendered.
C9_Witness ==
    /\ pc = "done"
    /\ tau_E_unex = tau_E_bohm
    /\ Has(BohmWorse)
    /\ ~Has(BohmBetter)

\* C10: past the gate no run raises: D_UNEX, D_Bohm and D_Neoclassical are
\* strictly positive floats whenever computed, and so are the three confinement
\* times.
C10_NoNumericFault ==
    /\ pc # "crashed"
    /\ \A x \in {D_UNEX, D_Bohm, D_Neoclassical,
                 tau_E_unex, tau_E_bohm, tau_E_neoclassical} :
          x # None => (IsFloat(x) /\ x.n > 0 /\ x.d > 0)
    /\ pc \in {"compare", "plot", "done"} =>
          \A x \in {D_UNEX, D_Bohm, D_Neoclassical,
                    tau_E_unex, tau_E_bohm, tau_E_neoclassical} : x # None

\* A finished run at the smallest divisors the sliders admit: T at its
\* minimum, B at its maximum.
C10_Witness ==
    /\ pc = "done"
    /\ sliders.T = T_slider.min
    /\ sliders.B = B_slider.max
    /\ FGt(tau_E_neoclassical, Rat(0, 1))
    /\ FGt(tau_E_bohm, Rat(0, 1))

===========================================================================
